---- MODULE Spec2Model ----
(***************************************************************************)
(* House price lookup web app (glynnbird/houseprices).                     *)
(*                                                                         *)
(* The model covers the Express route GET /postcode/:pc in its two         *)
(* revisions (app.js without the national-trend cache, and the revision    *)
(* with the cache and the derived statistics), the browser-side            *)
(* submitPostcode, and the three MapReduce views of the design document    *)
(* "fetch" (bypostcode, bytime, bypcdandtime) with the _stats reducer.     *)
(*                                                                         *)
(* A JavaScript string is a sequence of one-character strings, so that     *)
(* toUpperCase, replace, split, substr, parseInt and the regular           *)
(* expression are computed character by character.  A JavaScript value     *)
(* that may be undefined (or NaN) is a sequence of length 0 or 1.          *)
(***************************************************************************)
EXTENDS Integers, Sequences, FiniteSets, TLC

\* ------------------------------------------------------------------------
\* Bounds of the model
\* ------------------------------------------------------------------------

\* longest URL parameter enumerated by SpecUrl
MaxLen == 6

\* number of documents in the houseprices database
MaxDocs == 2

\* number of browser navigations in flight at once
MaxReq == 2

\* ------------------------------------------------------------------------
\* JavaScript strings
\* ------------------------------------------------------------------------

UpperLetters == {"A", "C", "F", "L", "T", "Z"}

LowerLetters == {"a", "c", "f", "l", "t", "z"}

Digits == {"0", "1", "2", "3", "4", "5", "6", "7", "8", "9"}

\* String.prototype.toUpperCase on one character
UpperOf(c) ==
  CASE c = "a" -> "A"
    [] c = "c" -> "C"
    [] c = "f" -> "F"
    [] c = "l" -> "L"
    [] c = "t" -> "T"
    [] c = "z" -> "Z"
    [] OTHER -> c

toUpperCase(s) == [i \in DOMAIN s |-> UpperOf(s[i])]

\* UTF-16 code unit of a character, the order of JavaScript's < on strings
CharCode(c) ==
  CASE c = " " -> 32
    [] c = "-" -> 45
    [] c = "0" -> 48
    [] c = "1" -> 49
    [] c = "2" -> 50
    [] c = "3" -> 51
    [] c = "4" -> 52
    [] c = "5" -> 53
    [] c = "6" -> 54
    [] c = "7" -> 55
    [] c = "8" -> 56
    [] c = "9" -> 57
    [] c = ":" -> 58
    [] c = "A" -> 65
    [] c = "C" -> 67
    [] c = "F" -> 70
    [] c = "L" -> 76
    [] c = "T" -> 84
    [] c = "Z" -> 90
    [] c = "a" -> 97
    [] c = "c" -> 99
    [] c = "f" -> 102
    [] c = "l" -> 108
    [] c = "t" -> 116
    [] c = "z" -> 122

\* a < b on two JavaScript strings
RECURSIVE JsLess(_, _)
JsLess(a, b) ==
  IF b = <<>> THEN FALSE
  ELSE IF a = <<>> THEN TRUE
  ELSE IF CharCode(Head(a)) # CharCode(Head(b))
       THEN CharCode(Head(a)) < CharCode(Head(b))
       ELSE JsLess(Tail(a), Tail(b))

\* a < b where either operand may be undefined: undefined makes < false
JsLessOpt(a, b) == a # <<>> /\ b # <<>> /\ JsLess(a[1], b[1])

\* s.replace(/[^A-Z0-9]/g, "")
StripNonAlnum(s) == SelectSeq(s, LAMBDA c : c \in UpperLetters \cup Digits)

\* s.replace(/ /, ""): the regular expression has no g flag, so only the
\* first space goes
RECURSIVE ReplaceFirstSpace(_)
ReplaceFirstSpace(s) ==
  IF s = <<>> THEN <<>>
  ELSE IF Head(s) = " " THEN Tail(s)
  ELSE <<Head(s)>> \o ReplaceFirstSpace(Tail(s))

\* s.split(sep) for a one-character separator
RECURSIVE Split(_, _)
Split(s, sep) ==
  IF \A i \in DOMAIN s : s[i] # sep THEN <<s>>
  ELSE LET k == CHOOSE i \in DOMAIN s :
                  s[i] = sep /\ \A j \in 1..(i - 1) : s[j] # sep
       IN <<SubSeq(s, 1, k - 1)>> \o Split(SubSeq(s, k + 1, Len(s)), sep)

DigitVal(c) == CharCode(c) - 48

\* parseInt(s, 10): the longest prefix of digits, NaN (<<>>) when there is none
RECURSIVE ParseDigits(_, _)
ParseDigits(s, acc) ==
  IF s = <<>> \/ Head(s) \notin Digits THEN acc
  ELSE ParseDigits(Tail(s), 10 * acc + DigitVal(Head(s)))

parseInt(s) ==
  IF s = <<>> \/ Head(s) \notin Digits THEN <<>> ELSE <<ParseDigits(s, 0)>>

DigitChar(d) == CHOOSE c \in Digits : DigitVal(c) = d

\* Number.prototype.toString for a non-negative integer
RECURSIVE toString(_)
toString(n) ==
  IF n < 10 THEN <<DigitChar(n)>>
  ELSE toString(n \div 10) \o <<DigitChar(n % 10)>>

AllIn(s, S) == \A i \in DOMAIN s : s[i] \in S

\* the pattern without its closing $: anything may follow the two letters
MatchesPostcodeOpenEnd(s) ==
  \E n \in 1..Len(s) : \E i \in 1..n : \E j \in (i + 1)..n : \E opt \in {0, 1} :
    /\ AllIn(SubSeq(s, 1, i), UpperLetters)
    /\ AllIn(SubSeq(s, i + 1, j), Digits)
    /\ n = j + opt + 3
    /\ (opt = 1 => s[j + 1] \in UpperLetters)
    /\ s[j + opt + 1] \in Digits
    /\ s[j + opt + 2] \in UpperLetters
    /\ s[j + opt + 3] \in UpperLetters

\* s.match(/^[A-Z]+[0-9]+[A-Z]?[0-9][A-Z][A-Z]$/)
MatchesPostcode(s) ==
  \E i \in 1..Len(s) : \E j \in (i + 1)..Len(s) : \E opt \in {0, 1} :
    /\ AllIn(SubSeq(s, 1, i), UpperLetters)
    /\ AllIn(SubSeq(s, i + 1, j), Digits)
    /\ Len(s) = j + opt + 3
    /\ (opt = 1 => s[j + 1] \in UpperLetters)
    /\ s[j + opt + 1] \in Digits
    /\ s[j + opt + 2] \in UpperLetters
    /\ s[j + opt + 3] \in UpperLetters

\* the two calls in the other order: lower-case letters are stripped
NormalizeStripFirst(s) == toUpperCase(StripNonAlnum(s))

\* original_postcode.toUpperCase().replace(/[^A-Z0-9]/g,"")
Normalize(s) == StripNonAlnum(toUpperCase(s))

\* the district cut two characters from the end
pcdCutTwo(postcode) == SubSeq(postcode, 1, Len(postcode) - 2)

\* postcode.substr(0, postcode.length-3)
pcd(postcode) == SubSeq(postcode, 1, Len(postcode) - 3)

\* ------------------------------------------------------------------------
\* Documents of the houseprices database
\* ------------------------------------------------------------------------

Str_CT20_1LF == <<"C", "T", "2", "0", " ", "1", "L", "F">>

Str_CT201LF == <<"C", "T", "2", "0", "1", "L", "F">>

Str_CT20__1LF == <<"C", "T", "2", "0", " ", " ", "1", "L", "F">>

Str_CT2_1LF == <<"C", "T", "2", " ", "1", "L", "F">>

Str_ct20_1lf == <<"c", "t", "2", "0", " ", "1", "l", "f">>

Str_A1_1AA == <<"A", "1", " ", "1", "A", "A">>

Date_1995 == <<"1", "9", "9", "5", "-", "0", "1", "-", "0", "1">>

Date_2014 == <<"2", "0", "1", "4", "-", "0", "6", "-", "0", "1">>

\* the format of the imported CSV: "2005-01-14 00:00"
Date_2005 ==
  <<"2", "0", "0", "5", "-", "0", "1", "-", "1", "4", " ", "0", "0", ":", "0", "0">>

Doc(pc, price, date) == [postcode |-> pc, price |-> price, date |-> date]

\* The documents a database is drawn from.  A field that is absent from the
\* document is <<>>.  Every document with a date has a numeric price: the
\* time indexes emit doc.price unguarded and _stats accepts numbers only.
DocPool ==
  { Doc(<<Str_CT20_1LF>>, <<100000>>, <<Date_1995>>),
    Doc(<<Str_CT20_1LF>>, <<200000>>, <<Date_2014>>),
    Doc(<<Str_CT20_1LF>>, <<100000>>, <<Date_2005>>),
    Doc(<<Str_CT201LF>>, <<100000>>, <<Date_1995>>),
    Doc(<<Str_CT201LF>>, <<200000>>, <<Date_2014>>),
    Doc(<<Str_CT20__1LF>>, <<200000>>, <<Date_1995>>),
    Doc(<<Str_CT2_1LF>>, <<200000>>, <<Date_1995>>),
    Doc(<<Str_ct20_1lf>>, <<100000>>, <<Date_2005>>),
    Doc(<<Str_CT20_1LF>>, <<>>, <<>>),
    Doc(<<>>, <<100000>>, <<Date_2014>>) }

\* a database: document ids 1..Len, in _id order
Databases == UNION { [1..n -> DocPool] : n \in 0..MaxDocs }

\* ------------------------------------------------------------------------
\* The design document "fetch": map functions
\* ------------------------------------------------------------------------

\* a JavaScript string is truthy unless it is undefined or empty
TruthyStr(o) == o # <<>> /\ o[1] # <<>>

\* a JavaScript number is truthy unless it is undefined, 0 or NaN
TruthyNum(o) == o # <<>> /\ o[1] # 0

\* parseInt of an element of an array that may be too short; NaN is stored
\* as JSON null, which collates before every number: -1 here
IntAt(parts, i) ==
  IF i > Len(parts) \/ parseInt(parts[i]) = <<>> THEN -1 ELSE parseInt(parts[i])[1]

\* var bits = doc.date.split(" "); var date = bits[0].split("-");
\* [parseInt(date[0],10), parseInt(date[1],10), parseInt(date[2],10)]
DateKey(date) ==
  LET bits == Split(date, " ")
      parts == Split(bits[1], "-")
  IN <<IntAt(parts, 1), IntAt(parts, 2), IntAt(parts, 3)>>

\* Map Function 1: the entries one document emits into bypostcode
MapByPostcode(id, doc) ==
  IF TruthyStr(doc.postcode) /\ TruthyNum(doc.price)
  THEN {[id |-> id, key |-> ReplaceFirstSpace(doc.postcode[1]), value |-> doc.price[1]]}
  ELSE {}

\* Map Function 2: the entries one document emits into bytime
MapByTime(id, doc) ==
  IF TruthyStr(doc.date)
  THEN {[id |-> id, key |-> DateKey(doc.date[1]), value |-> doc.price[1]]}
  ELSE {}

\* Map Function 3: the entries one document emits into bypcdandtime.
\* doc.postcode.split of an absent postcode throws, and the view server
\* leaves a document whose map function throws out of the index.
MapByPcdAndTime(id, doc) ==
  IF TruthyStr(doc.date) /\ doc.postcode # <<>>
  THEN {[id |-> id,
         key |-> <<Split(doc.postcode[1], " ")[1]>> \o DateKey(doc.date[1]),
         value |-> doc.price[1]]}
  ELSE {}

\* ------------------------------------------------------------------------
\* View collation (keys of an index are kept in this order)
\* ------------------------------------------------------------------------

\* primary weight of a character: punctuation < digits < letters, the case
\* of a letter ignored
PrimaryWeight(c) ==
  IF c \in LowerLetters THEN CharCode(UpperOf(c))
  ELSE IF c = ":" THEN 46
  ELSE CharCode(c)

RECURSIVE ComparePrimary(_, _)
ComparePrimary(a, b) ==
  IF a = <<>> /\ b = <<>> THEN 0
  ELSE IF a = <<>> THEN -1
  ELSE IF b = <<>> THEN 1
  ELSE IF PrimaryWeight(Head(a)) < PrimaryWeight(Head(b)) THEN -1
  ELSE IF PrimaryWeight(Head(a)) > PrimaryWeight(Head(b)) THEN 1
  ELSE ComparePrimary(Tail(a), Tail(b))

\* strings of equal primary weights: at the first difference in case the
\* lower-case letter comes first
RECURSIVE CompareCase(_, _)
CompareCase(a, b) ==
  IF a = <<>> \/ b = <<>> THEN 0
  ELSE IF Head(a) = Head(b) THEN CompareCase(Tail(a), Tail(b))
  ELSE IF Head(a) \in LowerLetters THEN -1
  ELSE 1

\* collation of two strings: -1, 0 or 1
CollateString(a, b) ==
  IF ComparePrimary(a, b) # 0 THEN ComparePrimary(a, b) ELSE CompareCase(a, b)

CollateInt(a, b) == IF a < b THEN -1 ELSE IF a > b THEN 1 ELSE 0

\* collation of two array keys whose first element is a string (district)
\* when str is TRUE, and whose other elements are numbers: element by
\* element, and a proper prefix before the longer array
RECURSIVE CollateArray(_, _, _)
CollateArray(a, b, str) ==
  IF a = <<>> /\ b = <<>> THEN 0
  ELSE IF a = <<>> THEN -1
  ELSE IF b = <<>> THEN 1
  ELSE LET c == IF str THEN CollateString(Head(a), Head(b))
                ELSE CollateInt(Head(a), Head(b))
       IN IF c # 0 THEN c ELSE CollateArray(Tail(a), Tail(b), FALSE)

\* the three kinds of key
CollateKey(view, a, b) ==
  CASE view = "bypostcode" -> CollateString(a, b)
    [] view = "bytime" -> CollateArray(a, b, FALSE)
    [] view = "bypcdandtime" -> CollateArray(a, b, TRUE)

\* ------------------------------------------------------------------------
\* Indexes and queries
\* ------------------------------------------------------------------------

MapFunction(view, id, doc) ==
  CASE view = "bypostcode" -> MapByPostcode(id, doc)
    [] view = "bytime" -> MapByTime(id, doc)
    [] view = "bypcdandtime" -> MapByPcdAndTime(id, doc)

\* every entry the documents of db emit into a view
Emitted(view, db) == UNION { MapFunction(view, id, db[id]) : id \in DOMAIN db }

\* entry e comes before entry f in the index: by key, then by document id
EntryBefore(view, e, f) ==
  \/ CollateKey(view, e.key, f.key) < 0
  \/ CollateKey(view, e.key, f.key) = 0 /\ e.id < f.id

\* a set of entries as the sequence the index holds them in
RECURSIVE InIndexOrder(_, _)
InIndexOrder(view, entries) ==
  IF entries = {} THEN <<>>
  ELSE LET first == CHOOSE e \in entries :
                      \A f \in entries \ {e} : EntryBefore(view, e, f)
       IN <<first>> \o InIndexOrder(view, entries \ {first})

Index(view, db) == InIndexOrder(view, Emitted(view, db))

\* the entries of a view inside [startkey, endkey], both ends included
InRange(view, db, startkey, endkey) ==
  { e \in Emitted(view, db) :
      /\ CollateKey(view, startkey, e.key) <= 0
      /\ CollateKey(view, e.key, endkey) <= 0 }

\* the first n elements of a key: the group of an entry at group_level n
KeyPrefix(key, n) == SubSeq(key, 1, IF n < Len(key) THEN n ELSE Len(key))

Min(a, b) == IF a < b THEN a ELSE b

Max(a, b) == IF a > b THEN a ELSE b

\* the built-in _stats reducer on one value, and its rereduce.  sumsqr is
\* never read by the app and is left out.
StatsOf(v) == [sum |-> v, count |-> 1, min |-> v, max |-> v]

StatsMerge(s, t) ==
  [sum |-> s.sum + t.sum,
   count |-> s.count + t.count,
   min |-> Min(s.min, t.min),
   max |-> Max(s.max, t.max)]

\* reduce with group_level n: the entries are walked in index order and
\* each is folded into the last row when it has that row's key prefix
RECURSIVE GroupRows(_, _, _)
GroupRows(entries, n, rows) ==
  IF entries = <<>> THEN rows
  ELSE LET e == Head(entries)
           k == KeyPrefix(e.key, n)
           last == Len(rows)
       IN IF last > 0 /\ rows[last].key = k
          THEN GroupRows(Tail(entries), n,
                 [rows EXCEPT ![last].value = StatsMerge(@, StatsOf(e.value))])
          ELSE GroupRows(Tail(entries), n,
                 Append(rows, [key |-> k, value |-> StatsOf(e.value)]))

\* hp.view('fetch','bypostcode', {key: k, reduce: false, include_docs: true})
ViewByPostcode(db, k) ==
  LET hits == InIndexOrder("bypostcode", InRange("bypostcode", db, k, k))
  IN [i \in DOMAIN hits |->
        [id |-> hits[i].id, key |-> hits[i].key, value |-> hits[i].value,
         doc |-> db[hits[i].id]]]

\* hp.view('fetch','bytime', {group_level: 1})
ViewByTime(db) == GroupRows(Index("bytime", db), 1, <<>>)

\* hp.view('fetch','bypcdandtime', {startkey, endkey, group_level: 2})
ViewByPcdAndTime(db, startkey, endkey) ==
  GroupRows(InIndexOrder("bypcdandtime",
                         InRange("bypcdandtime", db, startkey, endkey)),
            2, <<>>)

\* ------------------------------------------------------------------------
\* datesort and Array.prototype.sort
\* ------------------------------------------------------------------------

\* var datesort = function(a,b) { ... }
datesort(a, b) ==
  IF JsLessOpt(a.doc.date, b.doc.date) THEN -1
  ELSE IF JsLessOpt(b.doc.date, a.doc.date) THEN 1
  ELSE 0

\* rows.sort(cmp) on a short array: insertion sort, each element moved left
\* past the elements that compare greater
RECURSIVE InsertRow(_, _)
InsertRow(sorted, x) ==
  IF sorted = <<>> THEN <<x>>
  ELSE IF datesort(sorted[Len(sorted)], x) > 0
       THEN Append(InsertRow(SubSeq(sorted, 1, Len(sorted) - 1), x),
                   sorted[Len(sorted)])
       ELSE Append(sorted, x)

RECURSIVE SortInto(_, _)
SortInto(sorted, rest) ==
  IF rest = <<>> THEN sorted
  ELSE SortInto(InsertRow(sorted, Head(rest)), Tail(rest))

Sort(rows) == SortInto(<<>>, rows)

\* ------------------------------------------------------------------------
\* The final callback of async.parallel: the view model
\* ------------------------------------------------------------------------

\* the sum divided by one more than the count
AverageOverOneMore(value) == [num |-> value.sum, den |-> value.count + 1]

\* value.sum / value.count, kept as an exact fraction
Average(value) == [num |-> value.sum, den |-> value.count]

\* the last row of rows whose key element at position pos prints as year
LastRowOf(rows, pos, year) ==
  rows[CHOOSE i \in DOMAIN rows :
         /\ toString(rows[i].key[pos]) = year
         /\ \A j \in DOMAIN rows : toString(rows[j].key[pos]) = year => j <= i]

\* var trend = [ ["Year", "Price"] ]; ... trend.push(v)
trend(national) ==
  << <<"Year", "Price">> >> \o
  [i \in DOMAIN national |->
     <<toString(national[i].key[1]), Average(national[i].value)>>]

\* yearmap[ v[0] ] = v[1]
yearmap(national) ==
  [year \in {toString(national[i].key[1]) : i \in DOMAIN national} |->
     Average(LastRowOf(national, 1, year).value)]

\* pyearmap[ v[0] ] = v[2]
pyearmap(district) ==
  [year \in {toString(district[i].key[2]) : i \in DOMAIN district} |->
     Average(LastRowOf(district, 2, year).value)]

\* map[year], undefined (<<>>) when the object has no such property
Lookup(map, year) == IF year \in DOMAIN map THEN <<map[year]>> ELSE <<>>

\* var trend2 = [ ["Year", "Max","Avg", "Min", "Nat. Avg"] ]; ... trend2.push(v)
trend2(district, national) ==
  << <<"Year", "Max", "Avg", "Min", "Nat. Avg">> >> \o
  [i \in DOMAIN district |->
     <<toString(district[i].key[2]),
       district[i].value.max,
       Average(district[i].value),
       district[i].value.min,
       Lookup(yearmap(national), toString(district[i].key[2]))>>]

\* an average is truthy unless it is undefined, 0 or NaN
TruthyAvg(o) == o # <<>> /\ o[1].num # 0 /\ o[1].den # 0

\* Math.round(n / d) for d > 0: the nearest integer, halves rounded up
Round(n, d) == (2 * n + d) \div (2 * d)

\* var realterms = 0.74, in hundredths
realterms == 74

Year1995 == <<"1", "9", "9", "5">>

Year2014 == <<"2", "0", "1", "4">>

\* the stats object when both operands are numbers; a number that is NaN or
\* not finite is <<>>
StatsFrom(a, b, sales) ==
  IF a = <<>> \/ b = <<>> \/ a[1].num = 0
  THEN [factor |-> <<>>, profit |-> <<>>, profit_real_terms |-> <<>>,
        num_sales |-> sales]
  ELSE LET n95 == a[1].num
           d95 == a[1].den
           n14 == b[1].num
           d14 == b[1].den
       IN [factor |-> <<Round(100 * n14 * d95, d14 * n95)>>,
           profit |-> <<Round(n14 * d95 - n95 * d14, d14 * d95)>>,
           profit_real_terms |->
             <<Round(100 * n14 * d95 - (100 + realterms) * n95 * d14,
                     100 * d14 * d95)>>,
           num_sales |-> sales]

\* the condition that guards the stats block
StatsGuard(national, district) ==
  /\ TruthyAvg(Lookup(yearmap(national), Year1995))
  /\ TruthyAvg(Lookup(yearmap(national), Year2014))

\* if (yearmap["1995"] && yearmap["2014"]) { ... var stats = {...} }
stats(data) ==
  IF StatsGuard(data[1], data[2])
  THEN <<StatsFrom(Lookup(pyearmap(data[2]), Year1995),
                   Lookup(pyearmap(data[2]), Year2014),
                   Len(data[0]))>>
  ELSE <<>>

\* res.render('postcode', {...}); the revision without the cache passes no stats
ViewModel(rev, postcode, data) ==
  [postcode |-> postcode,
   pcd |-> pcd(postcode),
   bypostcode |-> data[0],
   byyear |-> trend(data[1]),
   bypcd |-> trend2(data[2], data[1]),
   stats |-> IF rev = "cached" THEN stats(data) ELSE <<>>]

\* ------------------------------------------------------------------------
\* State
\* ------------------------------------------------------------------------

VARIABLES
  revision,               \* "plain": app.js; "cached": the revision with the cache
  db,                     \* the documents of the houseprices database
  urls,                   \* what the browsers type
  browsers,               \* the browsers that navigate in this run
  alive,                  \* the node process is running
  cached_national_trend,  \* null (<<>>) or the rows of bytime at group_level 1
  cache_writes,           \* number of assignments to cached_national_trend
  req                     \* one record per browser navigation

vars == <<revision, db, urls, browsers, alive, cached_national_trend, cache_writes, req>>

Req == 1..MaxReq

\* the tasks of async.parallel, by position
Tasks == {0, 1, 2}

IdleReq ==
  [stage |-> "idle",
   original_postcode |-> <<>>,
   location |-> <<>>,
   hops |-> 0,
   pending |-> {},
   issued |-> {},
   failed |-> {},
   results |-> [q \in Tasks |-> <<>>],
   delivered |-> [q \in Tasks |-> <<>>],
   completed |-> 0,
   last |-> <<>>,
   renders |-> 0,
   view |-> <<>>]

\* URL parameters tried against every database
SampleUrls ==
  { Str_CT201LF,
    <<"C", "T", "2", "1", "L", "F">>,
    Str_ct20_1lf,
    <<"1", "2", "3", "4", "5">> }

UrlAlphabet == {"a", "A", "1", " "}

\* every string of 1..MaxLen characters of UrlAlphabet
UrlStrings == UNION { [1..n -> UrlAlphabet] : n \in 1..MaxLen }

UrlDb ==
  << Doc(<<Str_A1_1AA>>, <<100000>>, <<Date_1995>>),
     Doc(<<Str_A1_1AA>>, <<200000>>, <<Date_2014>>) >>

InitCommon ==
  /\ revision \in {"plain", "cached"}
  /\ alive = TRUE
  /\ cached_national_trend = <<>>
  /\ cache_writes = 0
  /\ req = [r \in Req |-> IdleReq]

\* the database and the URL parameters the concurrent runs are tried against
RaceDb ==
  << Doc(<<Str_CT20_1LF>>, <<200000>>, <<Date_2014>>),
     Doc(<<Str_CT20_1LF>>, <<100000>>, <<Date_1995>>) >>

RaceUrls == {Str_CT201LF, Str_ct20_1lf, <<"1", "2", "3", "4", "5">>}

\* one browser, every database
Init ==
  /\ InitCommon
  /\ db \in Databases
  /\ urls \in {{u} : u \in SampleUrls}
  /\ browsers = {1}

\* every browser, one database
InitRace ==
  /\ InitCommon
  /\ db = RaceDb
  /\ urls \in {{u} : u \in RaceUrls}
  /\ browsers = Req

\* one browser, every URL parameter
InitUrl ==
  /\ InitCommon
  /\ db = UrlDb
  /\ urls \in {{u} : u \in UrlStrings}
  /\ browsers = {1}

\* ------------------------------------------------------------------------
\* The browser
\* ------------------------------------------------------------------------

\* GET /postcode/<u> leaves the browser; a dead process refuses the connection
Get(r, u) ==
  req' = [req EXCEPT ![r].stage = IF alive THEN "get_postcode" ELSE "lost",
                     ![r].original_postcode = u]

\* the user opens /postcode/<u> directly
Navigate(r, u) ==
  /\ r \in browsers
  /\ req[r].stage = "idle"
  /\ Get(r, u)
  /\ UNCHANGED <<revision, db, urls, browsers, alive, cached_national_trend, cache_writes>>

\* public/js/index.js: the form on the home page
submitPostcode(r, text) ==
  /\ r \in browsers
  /\ req[r].stage = "idle"
  /\ LET p == Normalize(text)
     IN IF Len(p) > 0 /\ MatchesPostcode(p)
        THEN Get(r, p)
        ELSE req' = [req EXCEPT ![r].stage = "alert"]
  /\ UNCHANGED <<revision, db, urls, browsers, alive, cached_national_trend, cache_writes>>

\* the browser follows a redirect
FollowRedirect(r) ==
  /\ \/ /\ req[r].stage = "redirect_postcode"
        /\ req' = [req EXCEPT
                     ![r].stage = IF alive THEN "get_postcode" ELSE "lost",
                     ![r].original_postcode = req[r].location,
                     ![r].hops = @ + 1]
     \/ /\ req[r].stage = "redirect_home"
        /\ req' = [req EXCEPT
                     ![r].stage = IF alive THEN "get_home" ELSE "lost",
                     ![r].hops = @ + 1]
  /\ UNCHANGED <<revision, db, urls, browsers, alive, cached_national_trend, cache_writes>>

\* ------------------------------------------------------------------------
\* The server
\* ------------------------------------------------------------------------

\* app.get("/", ...): res.render("index")
Home(r) ==
  /\ alive
  /\ req[r].stage = "get_home"
  /\ req' = [req EXCEPT ![r].stage = "home"]
  /\ UNCHANGED <<revision, db, urls, browsers, alive, cached_national_trend, cache_writes>>

\* the results kept in the order the tasks complete
TaskDoneInArrivalOrder(results, completed, q, rows) ==
  [results EXCEPT ![completed] = <<rows>>]

\* async.parallel keeps the result of task q at position q
TaskDone(results, completed, q, rows) == [results EXCEPT ![q] = <<rows>>]

\* the callback of task q of request rq is called with (null, rows): the
\* result is stored and, when it is the third, the final callback renders.
\* delivered records what each task passed, last the task that came third.
Callback(rq, q, rows) ==
  LET results == TaskDone(rq.results, rq.completed, q, rows)
      done == [rq EXCEPT !.results = results,
                         !.delivered[q] = <<rows>>,
                         !.completed = @ + 1]
  IN IF done.completed = 3
     THEN [done EXCEPT
             !.stage = "rendered",
             !.last = <<q>>,
             !.renders = @ + 1,
             !.view = <<ViewModel(revision, rq.original_postcode,
                                  [t \in Tasks |-> results[t][1]])>>]
     ELSE done

\* the character appended to the district to make the endkey
Sentinel(rev) == IF rev = "cached" THEN "0" ELSE "z"

\* the national trend task answers from the cache without a query
CacheHit == revision = "cached" /\ cached_national_trend # <<>>

\* app.get('/postcode/:pc', ...)
Handler(r) ==
  /\ alive
  /\ req[r].stage = "get_postcode"
  /\ LET original_postcode == req[r].original_postcode
         postcode == Normalize(original_postcode)
     IN \/ /\ ~MatchesPostcode(postcode)
           /\ req' = [req EXCEPT ![r].stage = "redirect_home"]
        \/ /\ MatchesPostcode(postcode)
           /\ postcode # original_postcode
           /\ req' = [req EXCEPT ![r].stage = "redirect_postcode",
                                 ![r].location = postcode]
        \/ /\ MatchesPostcode(postcode)
           /\ postcode = original_postcode
           /\ LET launched ==
                    [req[r] EXCEPT
                       !.stage = "querying",
                       !.pending = IF CacheHit THEN {0, 2} ELSE Tasks,
                       !.issued = IF CacheHit THEN {0, 2} ELSE Tasks]
              IN req' = [req EXCEPT
                           ![r] = IF CacheHit
                                  THEN Callback(launched, 1, cached_national_trend[1])
                                  ELSE launched]
  /\ UNCHANGED <<revision, db, urls, browsers, alive, cached_national_trend, cache_writes>>

\* the store answers a query of request r with rows
Answer(r, q, rows) ==
  req' = [req EXCEPT
            ![r] = Callback([req[r] EXCEPT !.pending = @ \ {q}], q, rows)]

\* hp.view('fetch','bypostcode', options, function(err, data) {...})
ReplyByPostcode(r) ==
  /\ alive
  /\ 0 \in req[r].pending
  /\ Answer(r, 0, Sort(ViewByPostcode(db, req[r].original_postcode)))
  /\ UNCHANGED <<revision, db, urls, browsers, alive, cached_national_trend, cache_writes>>

\* hp.view('fetch','bytime', options, function(err, data) {...})
ReplyByTime(r) ==
  /\ alive
  /\ 1 \in req[r].pending
  /\ Answer(r, 1, ViewByTime(db))
  /\ IF revision = "cached"
     THEN /\ cached_national_trend' = <<ViewByTime(db)>>
          /\ cache_writes' = cache_writes + 1
     ELSE UNCHANGED <<cached_national_trend, cache_writes>>
  /\ UNCHANGED <<revision, db, urls, browsers, alive>>

\* hp.view('fetch','bypcdandtime', options, function(err, data) {...})
ReplyByPcdAndTime(r) ==
  /\ alive
  /\ 2 \in req[r].pending
  /\ LET district == pcd(req[r].original_postcode)
     IN Answer(r, 2, ViewByPcdAndTime(db, <<district>>,
                                      <<Append(district, Sentinel(revision))>>))
  /\ UNCHANGED <<revision, db, urls, browsers, alive, cached_national_trend, cache_writes>>

\* The store answers query q of request r with an error.  Every callback
\* reads data.rows without looking at err; data is undefined, the TypeError
\* is uncaught and ends the process, and with it every open request.
ReplyError(r, q) ==
  /\ alive
  /\ q \in req[r].pending
  /\ alive' = FALSE
  /\ cached_national_trend' = <<>>
  /\ req' = [s \in Req |->
               IF req[s].stage \in {"get_postcode", "get_home", "querying"}
               THEN [IdleReq EXCEPT !.stage = "lost",
                                    !.original_postcode = req[s].original_postcode,
                                    !.hops = req[s].hops,
                                    !.issued = req[s].issued,
                                    !.failed = IF s = r THEN {q} ELSE {}]
               ELSE req[s]]
  /\ UNCHANGED <<revision, db, urls, browsers, cache_writes>>

Next ==
  \/ \E r \in Req, u \in urls : Navigate(r, u)
  \/ \E r \in Req, u \in urls : submitPostcode(r, u)
  \/ \E r \in Req : FollowRedirect(r)
  \/ \E r \in Req : Home(r)
  \/ \E r \in Req : Handler(r)
  \/ \E r \in Req : ReplyByPostcode(r)
  \/ \E r \in Req : ReplyByTime(r)
  \/ \E r \in Req : ReplyByPcdAndTime(r)
  \/ \E r \in Req, q \in Tasks : ReplyError(r, q)

Spec == Init /\ [][Next]_vars

SpecRace == InitRace /\ [][Next]_vars

SpecUrl == InitUrl /\ [][Next]_vars

\* ------------------------------------------------------------------------
\* Importing data while the app is running
\* ------------------------------------------------------------------------

\* the database the app starts with, and the documents a later import adds
ImportDb == << Doc(<<Str_CT20_1LF>>, <<100000>>, <<Date_1995>>) >>

ImportPool ==
  { Doc(<<Str_CT20_1LF>>, <<200000>>, <<Date_2014>>),
    Doc(<<Str_CT20_1LF>>, <<200000>>, <<Date_1995>>) }

\* cat data.csv | couchimport --db houseprices: a document is written to the
\* database; the views index it before they answer the next query
couchimport(d) ==
  /\ Len(db) < MaxDocs
  /\ db' = Append(db, d)
  /\ UNCHANGED <<revision, urls, browsers, alive, cached_national_trend, cache_writes, req>>

\* every browser, a database that grows
InitImport ==
  /\ InitCommon
  /\ db = ImportDb
  /\ urls \in {{u} : u \in RaceUrls}
  /\ browsers = Req

NextImport ==
  \/ Next
  \/ \E d \in ImportPool : couchimport(d)

SpecImport == InitImport /\ [][NextImport]_vars

\* ------------------------------------------------------------------------
\* Input validation and canonical URLs
\* ------------------------------------------------------------------------

\* The postcode grammar as an automaton: the states a run of
\* letters+ digits+ letter? digit letter letter can be in after reading s.
\*   1: in the leading letters   2: in the digits   3: after the optional
\*   letter   4: after the last digit   5, 6: after the closing letters
GrammarStep(states, c) ==
  { t \in 1..6 :
      \E q \in states :
        \/ q \in {0, 1} /\ c \in UpperLetters /\ t = 1
        \/ q \in {1, 2} /\ c \in Digits /\ t = 2
        \/ q = 2 /\ c \in UpperLetters /\ t = 3
        \/ q \in {2, 3} /\ c \in Digits /\ t = 4
        \/ q = 4 /\ c \in UpperLetters /\ t = 5
        \/ q = 5 /\ c \in UpperLetters /\ t = 6 }

RECURSIVE GrammarRun(_, _)
GrammarRun(states, s) ==
  IF s = <<>> THEN states ELSE GrammarRun(GrammarStep(states, Head(s)), Tail(s))

InGrammar(s) == 6 \in GrammarRun({0}, s)

\* upper case, every character that is not a letter or a digit removed
RECURSIVE CanonicalForm(_)
CanonicalForm(s) ==
  IF s = <<>> THEN <<>>
  ELSE LET c == UpperOf(Head(s))
       IN IF c \in UpperLetters \cup Digits
          THEN <<c>> \o CanonicalForm(Tail(s))
          ELSE CanonicalForm(Tail(s))

\* the route handler has run on the request's current URL
Handled(rq) ==
  rq.stage \in {"redirect_home", "redirect_postcode", "get_home", "home",
                "querying", "rendered"}

\* C1: a request whose normalized value is outside the postcode grammar is
\* answered with a redirect to "/" and issues none of the three queries.
C1_InvalidRedirectsHome ==
  \A r \in Req :
    /\ (req[r].stage \in {"get_postcode", "lost"} \cup
                         {"redirect_home", "redirect_postcode", "get_home",
                          "home", "querying", "rendered"}
        /\ ~InGrammar(CanonicalForm(req[r].original_postcode)))
       => /\ req[r].issued = {}
          /\ req[r].stage \in {"get_postcode", "lost", "redirect_home",
                               "get_home", "home"}
    /\ req[r].stage \in {"redirect_home", "get_home", "home"}
       => ~InGrammar(CanonicalForm(req[r].original_postcode))

\* an invalid value was redirected to "/" and the home page served
C1_Witness ==
  \E r \in Req :
    /\ req[r].stage = "home"
    /\ req[r].hops = 1
    /\ req[r].original_postcode = <<"1", "1", "1", "1", "1">>
    /\ req[r].issued = {}

\* C2: a valid value that differs from its normalized form is answered with
\* a redirect to /postcode/<normalized form> and no query; queries are
\* issued only for a value equal to its normalized form, which the redirect
\* reaches after exactly one hop.
C2_CanonicalRedirect ==
  \A r \in Req :
    LET rq == req[r]
        canon == CanonicalForm(rq.original_postcode)
    IN /\ (Handled(rq) /\ InGrammar(canon) /\ canon # rq.original_postcode)
          => /\ rq.stage = "redirect_postcode"
             /\ rq.location = canon
             /\ rq.issued = {}
             /\ rq.hops = 0
       /\ rq.stage = "redirect_postcode"
          => InGrammar(canon) /\ canon # rq.original_postcode
       /\ rq.issued # {} => InGrammar(canon) /\ canon = rq.original_postcode
       /\ (Handled(rq) /\ InGrammar(canon) /\ canon = rq.original_postcode)
          => rq.stage \in {"querying", "rendered"} /\ rq.hops <= 1

\* "a1 1aa" was redirected once and its canonical form reached the queries
C2_Witness ==
  \E r \in Req :
    /\ req[r].stage = "querying"
    /\ req[r].hops = 1
    /\ req[r].original_postcode = <<"A", "1", "1", "A", "A">>
    /\ urls = {<<"a", "1", " ", "1", "a", "a">>}
    /\ req[r].issued = Tasks

\* ------------------------------------------------------------------------
\* The by-postcode lookup
\* ------------------------------------------------------------------------

\* upper case, every space removed
RemoveSpaces(s) == SelectSeq(toUpperCase(s), LAMBDA c : c # " ")

\* the documents with a price whose postcode, in upper case and without
\* spaces, is S
TransactionsAt(S) ==
  { id \in DOMAIN db :
      /\ db[id].postcode # <<>>
      /\ db[id].price # <<>>
      /\ RemoveSpaces(db[id].postcode[1]) = S }

\* C3: the by-postcode rows of a request for S are exactly the transactions
\* with a price whose normalized postcode (upper case, all whitespace
\* removed) is S, each once, in non-decreasing order of date.
C3_ByPostcodeExact ==
  \A r \in Req :
    req[r].delivered[0] # <<>> =>
      LET rows == req[r].delivered[0][1]
      IN /\ {rows[i].id : i \in DOMAIN rows} = TransactionsAt(req[r].original_postcode)
         /\ \A i, j \in DOMAIN rows : i # j => rows[i].id # rows[j].id
         /\ \A i, j \in DOMAIN rows :
              i < j => ~JsLessOpt(rows[j].doc.date, rows[i].doc.date)

\* ------------------------------------------------------------------------
\* The district range
\* ------------------------------------------------------------------------

\* the entries of bypcdandtime whose district component is D
EntriesOfDistrict(D) == { e \in Emitted("bypcdandtime", db) : e.key[1] = D }

\* C4: the range [startkey=[D], endkey=[D + sentinel]] selects exactly the
\* entries whose district is D: the rows answered are the groups of those
\* entries and of no other district's.
C4_RangeIsDistrict ==
  \A r \in Req :
    req[r].delivered[2] # <<>> =>
      req[r].delivered[2][1] =
        GroupRows(InIndexOrder("bypcdandtime",
                               EntriesOfDistrict(pcd(req[r].original_postcode))),
                  2, <<>>)

\* ------------------------------------------------------------------------
\* District of a stored postcode, and the 1995/2014 scenario
\* ------------------------------------------------------------------------

\* the documents with a date and a postcode whose normalized form is P
DatedAt(P) ==
  { id \in DOMAIN db :
      /\ db[id].date # <<>>
      /\ db[id].postcode # <<>>
      /\ CanonicalForm(db[id].postcode[1]) = P }

\* P without its last three characters
DistrictOf(P) == [i \in 1..(Len(P) - 3) |-> P[i]]

\* rows has a group keyed [D, year of the document] that holds its price
FoldedIn(rows, D, doc) ==
  \E i \in DOMAIN rows :
    /\ rows[i].key = <<D, DateKey(doc.date[1])[1]>>
    /\ rows[i].value.count >= 1
    /\ rows[i].value.min <= doc.price[1]
    /\ doc.price[1] <= rows[i].value.max

\* the two groups of the scenario
ScenarioGroups ==
  << [key |-> <<<<"C", "T", "2", "0">>, 1995>>,
      value |-> [sum |-> 100000, count |-> 1, min |-> 100000, max |-> 100000]],
     [key |-> <<<<"C", "T", "2", "0">>, 2014>>,
      value |-> [sum |-> 200000, count |-> 1, min |-> 200000, max |-> 200000]] >>

\* the scenario's two transactions, the postcode stored as pc
ScenarioDb(pc) ==
  << Doc(<<pc>>, <<100000>>, <<Date_1995>>), Doc(<<pc>>, <<200000>>, <<Date_2014>>) >>

\* the scenario's outcome for request rq when the database is scenario
ScenarioHolds(rq, scenario) ==
  (db = scenario /\ rq.original_postcode = Str_CT201LF) =>
    /\ rq.delivered[2] # <<>> => rq.delivered[2][1] = ScenarioGroups
    /\ (rq.view # <<>> /\ revision = "cached") =>
         /\ rq.view[1].stats # <<>>
         /\ rq.view[1].stats[1].factor = <<200>>

\* C5 as stated: every stored transaction with a date whose postcode
\* normalizes to P is emitted under the district the handler derives for P,
\* so the district rows of a request for P hold a group [district, year]
\* with its price; the transactions stored with postcode "CT201LF" give
\* the groups ["CT20",1995] and ["CT20",2014] and growthFactor 200.
C5_DistrictOfAnyPostcode ==
  \A r \in Req :
    /\ req[r].delivered[2] # <<>> =>
         \A id \in DatedAt(req[r].original_postcode) :
           FoldedIn(req[r].delivered[2][1], DistrictOf(req[r].original_postcode), db[id])
    /\ ScenarioHolds(req[r], ScenarioDb(Str_CT201LF))

\* a postcode as the import stores it: upper-case letters and digits, with
\* one space, before the last three characters
SpacedForm(pc) ==
  /\ Len(pc) >= 4
  /\ \A i \in DOMAIN pc :
       IF i = Len(pc) - 3 THEN pc[i] = " " ELSE pc[i] \in UpperLetters \cup Digits

\* C5 as amended: the same for the transactions whose postcode is stored in
\* upper case with one space before its last three characters, and for the
\* scenario with the postcode stored as "CT20 1LF".
C5_DistrictOfSpacedPostcode ==
  \A r \in Req :
    /\ req[r].delivered[2] # <<>> =>
         \A id \in DatedAt(req[r].original_postcode) :
           SpacedForm(db[id].postcode[1]) =>
             /\ MapByPcdAndTime(id, db[id]) # {}
             /\ \A e \in MapByPcdAndTime(id, db[id]) :
                  e.key[1] = DistrictOf(req[r].original_postcode)
             /\ FoldedIn(req[r].delivered[2][1], DistrictOf(req[r].original_postcode), db[id])
    /\ ScenarioHolds(req[r], ScenarioDb(Str_CT20_1LF))

\* the scenario stored as "CT20 1LF" rendered with growthFactor 200
C5_Witness ==
  \E r \in Req :
    /\ db = ScenarioDb(Str_CT20_1LF)
    /\ revision = "cached"
    /\ req[r].stage = "rendered"
    /\ req[r].delivered[2][1] = ScenarioGroups
    /\ req[r].view[1].stats[1].factor = <<200>>

\* ------------------------------------------------------------------------
\* The derived statistics
\* ------------------------------------------------------------------------

\* rows has a group of the given year with a non-zero count
HasYear(rows, year) ==
  \E i \in DOMAIN rows : rows[i].key[2] = year /\ rows[i].value.count # 0

\* C6: a stats block is passed to the view only when the district rows hold a
\* group for 1995 and a group for 2014 with non-zero counts, and no field of
\* it is not-a-number.
C6_StatsOnlyWithBothYears ==
  \A r \in Req :
    (req[r].view # <<>> /\ req[r].view[1].stats # <<>>) =>
      /\ HasYear(req[r].delivered[2][1], 1995)
      /\ HasYear(req[r].delivered[2][1], 2014)
      /\ req[r].view[1].stats[1].factor # <<>>
      /\ req[r].view[1].stats[1].profit # <<>>
      /\ req[r].view[1].stats[1].profit_real_terms # <<>>

\* ------------------------------------------------------------------------
\* Store failures
\* ------------------------------------------------------------------------

\* C7: a request one of whose queries failed is one failed request: it is
\* not rendered, the process keeps serving, and no other request is lost.
C7_SingleFailedRequest ==
  \A r \in Req :
    req[r].failed # {} =>
      /\ req[r].renders = 0
      /\ req[r].view = <<>>
      /\ alive
      /\ \A s \in Req \ {r} : req[s].stage # "lost"

\* ------------------------------------------------------------------------
\* Grouped statistics
\* ------------------------------------------------------------------------

\* row is the group of the entries that have its key as their prefix of
\* length n: the count is their number, and the mean lies within min..max
GroupOk(row, entries, n) ==
  /\ row.value.count = Cardinality({e \in entries : KeyPrefix(e.key, n) = row.key})
  /\ row.value.count >= 1
  /\ row.value.min * row.value.count <= row.value.sum
  /\ row.value.sum <= row.value.max * row.value.count

\* the fraction avg lies within lo..hi
Between(lo, avg, hi) ==
  /\ avg.den >= 1
  /\ lo * avg.den <= avg.num
  /\ avg.num <= hi * avg.den

\* the entries inside the district range of a request for postcode P
DistrictRange(P) ==
  InRange("bypcdandtime", db, <<DistrictOf(P)>>,
          <<Append(DistrictOf(P), Sentinel(revision))>>)

\* C8: every group of the national rows (prefix length 1) and of the district
\* rows (prefix length 2) counts the raw entries of the range with its
\* prefix, has count >= 1 and min <= sum/count <= max; every average in a
\* rendered trend row lies between that row's min and max.
C8_GroupStatistics ==
  \A r \in Req :
    LET rq == req[r]
    IN /\ rq.delivered[1] # <<>> =>
            \A i \in DOMAIN rq.delivered[1][1] :
              GroupOk(rq.delivered[1][1][i], Emitted("bytime", db), 1)
       /\ rq.delivered[2] # <<>> =>
            \A i \in DOMAIN rq.delivered[2][1] :
              GroupOk(rq.delivered[2][1][i], DistrictRange(rq.original_postcode), 2)
       /\ rq.view # <<>> =>
            /\ Len(rq.view[1].byyear) = Len(rq.delivered[1][1]) + 1
            /\ Len(rq.view[1].bypcd) = Len(rq.delivered[2][1]) + 1
            /\ \A i \in DOMAIN rq.delivered[1][1] :
                 Between(rq.delivered[1][1][i].value.min,
                         rq.view[1].byyear[i + 1][2],
                         rq.delivered[1][1][i].value.max)
            /\ \A i \in DOMAIN rq.delivered[2][1] :
                 Between(rq.view[1].bypcd[i + 1][4],
                         rq.view[1].bypcd[i + 1][3],
                         rq.view[1].bypcd[i + 1][2])

\* a rendered district row that folds two entries of different prices
C8_Witness ==
  \E r \in Req :
    /\ req[r].view # <<>>
    /\ \E i \in DOMAIN req[r].delivered[2][1] :
         /\ req[r].delivered[2][1][i].value.count = 2
         /\ req[r].delivered[2][1][i].value.min < req[r].delivered[2][1][i].value.max
         /\ req[r].view[1].bypcd[i + 1][3].den = 2

\* ------------------------------------------------------------------------
\* The parallel fan-out and its join
\* ------------------------------------------------------------------------

\* C9: whatever the order in which the three queries complete, the page is
\* rendered once, only after all three tasks have delivered, and the
\* results are bound by task position: 0 by-postcode rows, 1 national rows,
\* 2 district rows.
C9_JoinThenRenderOnce ==
  \A r \in Req :
    LET rq == req[r]
    IN /\ rq.renders <= 1
       /\ (rq.renders = 1) = (rq.view # <<>>)
       /\ (rq.stage = "rendered") = (rq.view # <<>>)
       /\ \A q \in Tasks : rq.results[q] = rq.delivered[q]
       /\ rq.completed = Cardinality({q \in Tasks : rq.delivered[q] # <<>>})
       /\ rq.completed < 3 => rq.view = <<>>
       /\ rq.view # <<>> =>
            /\ rq.pending = {}
            /\ \A q \in Tasks : rq.delivered[q] # <<>>
            /\ rq.view[1].bypostcode = rq.delivered[0][1]
            /\ rq.view[1].byyear = trend(rq.delivered[1][1])
            /\ rq.view[1].bypcd = trend2(rq.delivered[2][1], rq.delivered[1][1])

\* a page rendered when the by-postcode query, task 0, completed last
C9_Witness ==
  \E r \in Req :
    /\ req[r].stage = "rendered"
    /\ req[r].renders = 1
    /\ req[r].last = <<0>>
    /\ req[r].view[1].bypostcode # <<>>

\* ------------------------------------------------------------------------
\* The national-trend cache
\* ------------------------------------------------------------------------

\* C10: over any interleaving of requests, the national-by-year query is
\* issued at most once and cached_national_trend is assigned at most once.
C10_CacheWrittenOnce ==
  revision = "cached" =>
    /\ cache_writes <= 1
    /\ Cardinality({r \in Req : 1 \in req[r].issued}) <= 1


\* ------------------------------------------------------------------------
\* The national-trend cache
\* ------------------------------------------------------------------------

\* the national task of request r passes its result in this step
NationalDelivered(r) ==
  req[r].delivered[1] = <<>> /\ req'[r].delivered[1] # <<>>

\* the national year -> average series and the averages the "Nat. Avg"
\* column is read from, as the handler builds them from the rows it is given
NationalSeries(rows) == [byyear |-> trend(rows), natavg |-> yearmap(rows)]

\* C11: the cache is a correctness-neutral optimization: whenever the
\* national task of a request passes its result, the national series and the
\* "Nat. Avg" averages built from it equal those built from the answer of
\* the national-by-year query against the store's current index entries,
\* which is what the non-caching handler renders.
C11_CacheIsNeutral ==
  [][\A r \in Req :
       NationalDelivered(r) =>
         NationalSeries(req'[r].delivered[1][1]) = NationalSeries(ViewByTime(db))]_vars

====
